---- MODULE Spec2Model ----
(***************************************************************************)
(* Model of residencyreturns.py: calculate_net_worth (the yearly net-worth *)
(* recurrence), the table formatting of main, and main's step sequence.    *)
(*                                                                         *)
(* Python numbers are modelled by value.  A float is an IEEE-754 binary64  *)
(* number, kept as sign, odd integer significand and binary exponent, and  *)
(* every float operation rounds to 53 significant bits, ties to even, as   *)
(* CPython does.  An int of the program (all are below 2^53 in magnitude)  *)
(* is kept as the float of the same value, so int/float arithmetic mixes   *)
(* as in Python.  Significands exceed the 32-bit integers of TLC, so they   *)
(* are little-endian sequences of 15-bit limbs.                            *)
(***************************************************************************)
EXTENDS Integers, Sequences, FiniteSets

(***************************************************************************)
(* Natural numbers of any size: little-endian limb sequences, no leading   *)
(* zero limb (zero is the empty sequence).                                 *)
(***************************************************************************)
LimbBits == 15
Base == 2^LimbBits

Limb(a, i) == IF i <= Len(a) THEN a[i] ELSE 0

RECURSIVE Norm(_)
Norm(a) == IF a = <<>> THEN <<>>
           ELSE IF a[Len(a)] = 0 THEN Norm(SubSeq(a, 1, Len(a) - 1))
           ELSE a

RECURSIVE FromNat(_)
FromNat(n) == IF n = 0 THEN <<>> ELSE <<n % Base>> \o FromNat(n \div Base)

RECURSIVE ToNat(_)
ToNat(a) == IF a = <<>> THEN 0 ELSE a[1] + Base * ToNat(Tail(a))

RECURSIVE AddFrom(_, _, _, _)
AddFrom(a, b, i, c) ==
    IF i > Len(a) /\ i > Len(b)
    THEN (IF c = 0 THEN <<>> ELSE <<c>>)
    ELSE LET s == Limb(a, i) + Limb(b, i) + c
         IN  <<s % Base>> \o AddFrom(a, b, i + 1, s \div Base)

BAdd(a, b) == AddFrom(a, b, 1, 0)

RECURSIVE SubFrom(_, _, _, _)
SubFrom(a, b, i, c) ==
    IF i > Len(a)
    THEN <<>>
    ELSE LET d == Limb(a, i) - Limb(b, i) - c
         IN  IF d < 0 THEN <<d + Base>> \o SubFrom(a, b, i + 1, 1)
                      ELSE <<d>> \o SubFrom(a, b, i + 1, 0)

\* a - b for a >= b
BSub(a, b) == Norm(SubFrom(a, b, 1, 0))

RECURSIVE CmpFrom(_, _, _)
CmpFrom(a, b, i) ==
    IF i = 0 THEN 0
    ELSE IF a[i] < b[i] THEN -1
    ELSE IF a[i] > b[i] THEN 1
    ELSE CmpFrom(a, b, i - 1)

\* -1, 0 or 1 as a < b, a = b, a > b
BCmp(a, b) ==
    IF Len(a) < Len(b) THEN -1
    ELSE IF Len(a) > Len(b) THEN 1
    ELSE CmpFrom(a, b, Len(a))

RECURSIVE MulSmallFrom(_, _, _, _)
MulSmallFrom(a, m, i, c) ==
    IF i > Len(a)
    THEN (IF c = 0 THEN <<>> ELSE <<c>>)
    ELSE LET p == a[i] * m + c
         IN  <<p % Base>> \o MulSmallFrom(a, m, i + 1, p \div Base)

\* a * m for 0 <= m < Base
BMulSmall(a, m) == IF m = 0 THEN <<>> ELSE MulSmallFrom(a, m, 1, 0)

RECURSIVE BMul(_, _)
BMul(a, b) ==
    IF a = <<>> \/ b = <<>> THEN <<>>
    ELSE LET rest == BMul(a, Tail(b))
         IN  BAdd(BMulSmall(a, b[1]),
                  IF rest = <<>> THEN <<>> ELSE <<0>> \o rest)

RECURSIVE DivSmallFrom(_, _, _, _)
DivSmallFrom(a, d, i, r) ==
    IF i = 0 THEN [q |-> <<>>, r |-> r]
    ELSE LET cur  == r * Base + a[i]
             rest == DivSmallFrom(a, d, i - 1, cur % d)
         IN  [q |-> Append(rest.q, cur \div d), r |-> rest.r]

\* quotient and remainder of a by d, 0 < d < Base
BDivSmall(a, d) ==
    LET res == DivSmallFrom(a, d, Len(a), 0)
    IN  [q |-> Norm(res.q), r |-> res.r]

RECURSIVE SmallBitLen(_)
SmallBitLen(n) == IF n = 0 THEN 0 ELSE 1 + SmallBitLen(n \div 2)

BitLen(a) == IF a = <<>> THEN 0
             ELSE (Len(a) - 1) * LimbBits + SmallBitLen(a[Len(a)])

Zeros(n) == [i \in 1..n |-> 0]

ShiftL(a, k) ==
    IF a = <<>> THEN <<>>
    ELSE Zeros(k \div LimbBits) \o BMulSmall(a, 2^(k % LimbBits))

ShiftR(a, k) ==
    IF k \div LimbBits >= Len(a) THEN <<>>
    ELSE BDivSmall(SubSeq(a, k \div LimbBits + 1, Len(a)), 2^(k % LimbBits)).q

(***************************************************************************)
(* binary64 floats: [neg, man, exp] is (-1)^neg * man * 2^exp with man odd *)
(* and below 2^53, or man zero.  The values of the program stay far from   *)
(* the exponent limits, so overflow and subnormals are not modelled, and   *)
(* no operation of the program yields a negative zero.                     *)
(***************************************************************************)
MantBits == 53

FZero == [neg |-> FALSE, man |-> <<>>, exp |-> 0]

RECURSIVE SmallTrailingZeros(_)
SmallTrailingZeros(n) == IF n % 2 = 1 THEN 0 ELSE 1 + SmallTrailingZeros(n \div 2)

RECURSIVE Canon(_, _, _)
Canon(neg, n, e) ==
    IF n = <<>> THEN FZero
    ELSE IF n[1] = 0 THEN Canon(neg, Tail(n), e + LimbBits)
    ELSE LET tz == SmallTrailingZeros(n[1])
         IN  [neg |-> neg, man |-> ShiftR(n, tz), exp |-> e + tz]

\* the float nearest to (-1)^neg * n * 2^e, ties to the even significand
FRound(neg, n, e) ==
    IF BitLen(n) <= MantBits THEN Canon(neg, n, e)
    ELSE LET k    == BitLen(n) - MantBits
             q    == ShiftR(n, k)
             r    == BSub(n, ShiftL(q, k))
             c    == BCmp(r, ShiftL(<<1>>, k - 1))
             up   == c > 0 \/ (c = 0 /\ q[1] % 2 = 1)
         IN  Canon(neg, IF up THEN BAdd(q, <<1>>) ELSE q, e + k)

\* int -> float (exact below 2^53)
FromInt(n) == IF n < 0 THEN Canon(TRUE, FromNat(-n), 0) ELSE Canon(FALSE, FromNat(n), 0)

FNeg(a) == IF a.man = <<>> THEN a ELSE [a EXCEPT !.neg = ~a.neg]

Min(x, y) == IF x < y THEN x ELSE y
Max(x, y) == IF x > y THEN x ELSE y

\* a + b
FAdd(a, b) ==
    IF a.man = <<>> THEN b
    ELSE IF b.man = <<>> THEN a
    ELSE LET e  == Min(a.exp, b.exp)
             na == ShiftL(a.man, a.exp - e)
             nb == ShiftL(b.man, b.exp - e)
             c  == BCmp(na, nb)
         IN  IF a.neg = b.neg THEN FRound(a.neg, BAdd(na, nb), e)
             ELSE IF c = 0 THEN FZero
             ELSE IF c > 0 THEN FRound(a.neg, BSub(na, nb), e)
             ELSE FRound(b.neg, BSub(nb, na), e)

\* a - b
FSub(a, b) == FAdd(a, FNeg(b))

\* a * b
FMul(a, b) == FRound(a.neg # b.neg, BMul(a.man, b.man), a.exp + b.exp)

\* a < 0
FIsNeg(a) == a.neg /\ a.man # <<>>

\* -1, 0, 1 as |a| is below, equal to or above the natural number n
MagCmpNat(a, n) ==
    IF a.exp >= 0 THEN BCmp(ShiftL(a.man, a.exp), FromNat(n))
    ELSE BCmp(a.man, ShiftL(FromNat(n), -a.exp))

RECURSIVE DivChain(_, _)
DivChain(n, ds) ==
    IF ds = <<>> THEN [q |-> n, sticky |-> 0]
    ELSE LET first == BDivSmall(n, ds[1])
             rest  == DivChain(first.q, Tail(ds))
         IN  [q |-> rest.q,
              sticky |-> IF first.r # 0 THEN 1 ELSE rest.sticky]

GuardLimbs == 5

\* a / d for the positive int d that is the product of ds (each below Base):
\* the quotient is taken to at least two bits beyond the significand and
\* a sticky bit records a remainder, so the rounding is that of the exact
\* quotient.
FDivNat(a, ds) ==
    LET res == DivChain(Zeros(GuardLimbs) \o a.man, ds)
    IN  IF a.man = <<>> THEN FZero
        ELSE FRound(a.neg, BAdd(BMulSmall(res.q, 2), FromNat(res.sticky)),
                    a.exp - GuardLimbs * LimbBits - 1)

\* floor of |a| as a natural number (for |a| below 2^31)
MagFloor(a) ==
    IF a.exp >= 0 THEN ToNat(ShiftL(a.man, a.exp))
    ELSE ToNat(ShiftR(a.man, -a.exp))

\* int(a): truncation toward zero
FTrunc(a) == IF a.neg THEN -MagFloor(a) ELSE MagFloor(a)

\* whether a is a whole number
FIsWhole(a) == a.exp >= 0

(***************************************************************************)
(* The program's constants (residencyreturns.py lines 7-12).               *)
(***************************************************************************)
INITIAL_DEBT == 500000
RESIDENT_SALARY == 60000
SHORT_ATTENDING_SALARY == 300000
LONG_ATTENDING_SALARY == 400000
LIVING_EXPENSES == 50000

\* the literal 0.06: the float nearest to 6/100
INTEREST_RATE == FDivNat(FromInt(6), <<100>>)

\* main's horizon (line 47) and the two scenarios it simulates (lines 48-49)
MainYears == 15
ShortLength == 3
LongLength == 7

(***************************************************************************)
(* Bounds of the model and the arguments it draws.                         *)
(***************************************************************************)
MaxYears == 15
MaxResidency == 9

Years == (-1)..MaxYears
Residencies == (-1)..MaxResidency

VARIABLES
    entry,            \* what is run: "calculate_net_worth", "main" or "format"
    years,            \* calculate_net_worth's argument
    residency_length, \* calculate_net_worth's argument
    net_worth,        \* the list being built
    year,             \* the loop variable
    pc,               \* calculate_net_worth's position
    main_pc,          \* main's position
    short_residency,  \* main's locals
    long_residency,
    data,
    done_steps,       \* the statements of main completed so far, in order
    files,            \* the output files that exist
    exit_code,        \* the process's exit status, -1 while it runs
    val,              \* the value handed to the formatting expression
    cell              \* its text

vars == <<entry, years, residency_length, net_worth, year, pc,
          main_pc, short_residency, long_residency, data, done_steps, files,
          exit_code, val, cell>>

callVars == <<years, residency_length, net_worth, year, pc>>
mainVars == <<main_pc, short_residency, long_residency, data, done_steps,
              files, exit_code>>
fmtVars  == <<val, cell>>

(***************************************************************************)
(* calculate_net_worth (lines 14-43)                                       *)
(***************************************************************************)

\* (a variant that validates its arguments as the error taxonomy recommends)
ArgsValidated(y, L) == y > 0 /\ L \in {3, 7}

\* The function checks neither argument: every call is accepted.
ArgsAccepted(y, L) == TRUE

\* (a variant that drops the sign)
InitialNetWorthPositive == <<FromInt(INITIAL_DEBT)>>

\* line 16: [-INITIAL_DEBT]
InitialNetWorth == <<FNeg(FromInt(INITIAL_DEBT))>>

\* (a variant with range(1, years))
InRangeExclusive(yr, y) == yr < y

\* line 18: range(1, years + 1) still has the value yr
InRange(yr, y) == yr < y + 1

\* (a variant with year < residency_length)
InResidencyExclusive(yr, L) == yr < L

\* line 22: year <= residency_length
InResidency(yr, L) == yr <= L

\* (variants: no interest at all; interest whatever the sign)
InterestDropped(prev) == FZero
InterestOnAnyBalance(prev) == FMul(prev, INTEREST_RATE)

\* lines 25-28: interest on a negative balance only
Interest(prev) == IF FIsNeg(prev) THEN FMul(prev, INTEREST_RATE) ELSE FZero

\* (variants: the two salaries exchanged; the short salary up to length 3)
AttendingIncomeSwapped(L) ==
    IF L = 3 THEN LONG_ATTENDING_SALARY ELSE SHORT_ATTENDING_SALARY
AttendingIncomeUpTo3(L) ==
    IF L <= 3 THEN SHORT_ATTENDING_SALARY ELSE LONG_ATTENDING_SALARY

\* lines 34-37: the attending salary
AttendingIncome(L) == IF L = 3 THEN SHORT_ATTENDING_SALARY ELSE LONG_ATTENDING_SALARY

\* lines 19-39: the value appended for year yr after the balance prev
NewNetWorth(prev, yr, L) ==
    IF InResidency(yr, L)
    THEN FAdd(FAdd(prev, FromInt(RESIDENT_SALARY - LIVING_EXPENSES)), Interest(prev))
    ELSE FAdd(prev, FromInt(AttendingIncome(L) - LIVING_EXPENSES))

\* line 16, on entry
Enter ==
    /\ pc = "entry"
    /\ IF ArgsAccepted(years, residency_length)
       THEN /\ net_worth' = InitialNetWorth
            /\ year' = 1
            /\ pc' = "loop"
       ELSE /\ pc' = "error"
            /\ UNCHANGED <<net_worth, year>>
    /\ UNCHANGED <<entry, years, residency_length>>
    /\ UNCHANGED mainVars
    /\ UNCHANGED fmtVars

\* lines 18-41: one iteration of the loop
LoopStep ==
    /\ pc = "loop"
    /\ InRange(year, years)
    /\ net_worth' = Append(net_worth,
                           NewNetWorth(net_worth[Len(net_worth)], year, residency_length))
    /\ year' = year + 1
    /\ UNCHANGED <<entry, years, residency_length, pc>>
    /\ UNCHANGED mainVars
    /\ UNCHANGED fmtVars

\* line 43
Return ==
    /\ pc = "loop"
    /\ ~InRange(year, years)
    /\ pc' = "returned"
    /\ UNCHANGED <<entry, years, residency_length, net_worth, year>>
    /\ UNCHANGED mainVars
    /\ UNCHANGED fmtVars

\* calculate_net_worth(y, L) as a function of its arguments
RECURSIVE Extend(_, _, _, _)
Extend(nw, yr, y, L) ==
    IF InRange(yr, y)
    THEN Extend(Append(nw, NewNetWorth(nw[Len(nw)], yr, L)), yr + 1, y, L)
    ELSE nw

CalculateNetWorth(y, L) == Extend(InitialNetWorth, 1, y, L)

(***************************************************************************)
(* The formatting expression of main's table (lines 55-56).  Text is a     *)
(* sequence of characters.                                                 *)
(***************************************************************************)
DigitChar(d) == <<"0", "1", "2", "3", "4", "5", "6", "7", "8", "9">>[d + 1]

RECURSIVE NatStr(_)
NatStr(n) == IF n < 10 THEN <<DigitChar(n)>>
             ELSE Append(NatStr(n \div 10), DigitChar(n % 10))

\* str(n) of an int
IntStr(n) == IF n < 0 THEN <<"-">> \o NatStr(-n) ELSE NatStr(n)

\* |x| * 10 rounded to the nearest integer, ties to even: the digits that
\* format(x, ".1f") prints
Tenths(x) ==
    LET n10 == BMulSmall(x.man, 10)
        k   == -x.exp
        q   == ShiftR(n10, k)
        r   == BSub(n10, ShiftL(q, k))
        c   == BCmp(r, ShiftL(<<1>>, k - 1))
    IN  IF x.exp >= 0 THEN ToNat(ShiftL(n10, x.exp))
        ELSE IF c > 0 \/ (c = 0 /\ ToNat(q) % 2 = 1) THEN ToNat(q) + 1
        ELSE ToNat(q)

\* f"{x:.1f}"
Fixed1(x) ==
    (IF x.neg THEN <<"-">> ELSE <<>>)
        \o NatStr(Tenths(x) \div 10) \o <<".">> \o <<DigitChar(Tenths(x) % 10)>>

\* (a variant that floors the thousands instead of truncating them)
FormatValueFloored(v) ==
    LET x == FDivNat(v, <<1000>>)
        floor == IF x.neg /\ ~FIsWhole(x) THEN -(MagFloor(x) + 1) ELSE FTrunc(x)
    IN  IF MagCmpNat(v, 1000000) < 0
        THEN <<"$">> \o IntStr(floor) \o <<"K">>
        ELSE <<"$">> \o Fixed1(FDivNat(v, <<1000, 1000>>)) \o <<"M">>

\* f"${int(val/1000)}K" if abs(val) < 1000000 else f"${val/1000000:.1f}M"
FormatValue(v) ==
    IF MagCmpNat(v, 1000000) < 0
    THEN <<"$">> \o IntStr(FTrunc(FDivNat(v, <<1000>>))) \o <<"K">>
    ELSE <<"$">> \o Fixed1(FDivNat(v, <<1000, 1000>>)) \o <<"M">>

\* the list comprehension over a trajectory
FormatColumn(traj) == [i \in 1..Len(traj) |-> FormatValue(traj[i])]

\* the values the expression is tried on besides main's own: whole numbers
\* around its thresholds and a few values with a fraction
WholeProbes == {0, 1, -1, 999, -999, 1000, -1000, 1001, 1999, -1999,
                -520000, -520999, 520999, 999999, -999999, 1000000, -1000000,
                1000001, 1049999, 1050000, 1234567, -1234567, 1250000,
                1350000, 1949999, 1950000, 5600000}
QuarterProbes == {-2, 2, 3999, -3999, 4001, 2083997, -2083997, 3999999,
                  -3999999, 4000001}
FormatProbes ==
    {FromInt(n) : n \in WholeProbes}
        \cup {FDivNat(FromInt(n), <<4>>) : n \in QuarterProbes}
        \cup {FAdd(FromInt(520000), [neg |-> TRUE, man |-> <<1>>, exp |-> -34])}

Format ==
    /\ entry = "format"
    /\ cell = <<>>
    /\ cell' = FormatValue(val)
    /\ UNCHANGED <<entry, val>>
    /\ UNCHANGED callVars
    /\ UNCHANGED mainVars

(***************************************************************************)
(* main (lines 45-80)                                                      *)
(***************************************************************************)
CsvFile == "residency_comparison.csv"
PngFile == "residency_returns.png"

\* main's statements after the table data is built, each a call into a
\* library or to print, which may raise
LibrarySteps == <<"DataFrame", "print_table", "to_csv", "print_csv_saved",
                  "plot", "savefig", "print_chart_saved", "show">>

\* main's statements in the order of the source
MainOrder == <<"short_residency", "long_residency", "data">> \o LibrarySteps

\* the file a statement writes
Written(step) == IF step = "to_csv" THEN {CsvFile}
                 ELSE IF step = "savefig" THEN {PngFile}
                 ELSE {}

\* (a variant that swallows the exception and goes on to the next statement)
UncaughtSwallowed(step) ==
    /\ done_steps' = Append(done_steps, step)
    /\ UNCHANGED <<main_pc, exit_code, files>>

\* main has no try/except: an exception raised by a statement leaves main
\* and ends the process with a traceback and a nonzero status
Uncaught(step) ==
    /\ main_pc' = "raised"
    /\ exit_code' = 1
    /\ UNCHANGED <<done_steps, files>>

\* line 48: the call
MainCallShort ==
    /\ entry = "main"
    /\ main_pc = "start"
    /\ years' = MainYears
    /\ residency_length' = ShortLength
    /\ pc' = "entry"
    /\ main_pc' = "short"
    /\ UNCHANGED <<entry, net_worth, year, short_residency,
                   long_residency, data, done_steps, files, exit_code>>
    /\ UNCHANGED fmtVars

\* line 48: the assignment; line 49: the call
MainCallLong ==
    /\ main_pc = "short"
    /\ pc = "returned"
    /\ short_residency' = net_worth
    /\ done_steps' = Append(done_steps, "short_residency")
    /\ years' = MainYears
    /\ residency_length' = LongLength
    /\ net_worth' = <<>>
    /\ year' = 0
    /\ pc' = "entry"
    /\ main_pc' = "long"
    /\ UNCHANGED <<entry, long_residency, data, files, exit_code>>
    /\ UNCHANGED fmtVars

\* line 49: the assignment
MainGotLong ==
    /\ main_pc = "long"
    /\ pc = "returned"
    /\ long_residency' = net_worth
    /\ done_steps' = Append(done_steps, "long_residency")
    /\ pc' = "idle"
    /\ main_pc' = "data"
    /\ UNCHANGED <<entry, years, residency_length, net_worth, year,
                   short_residency, data, files, exit_code>>
    /\ UNCHANGED fmtVars

\* lines 52-57
MainBuildData ==
    /\ main_pc = "data"
    /\ data' = [years_array |-> [i \in 1..(MainYears + 1) |-> i - 1],
                short       |-> FormatColumn(short_residency),
                long        |-> FormatColumn(long_residency)]
    /\ done_steps' = Append(done_steps, "data")
    /\ main_pc' = "library"
    /\ UNCHANGED <<entry, short_residency, long_residency, files,
                   exit_code>>
    /\ UNCHANGED callVars
    /\ UNCHANGED fmtVars

\* lines 59-80: the next statement runs to completion, or raises
MainLibraryStep ==
    /\ main_pc = "library"
    /\ Len(done_steps) < Len(MainOrder)
    /\ LET step == MainOrder[Len(done_steps) + 1]
       IN  \/ /\ done_steps' = Append(done_steps, step)
              /\ files' = files \cup Written(step)
              /\ UNCHANGED <<main_pc, exit_code>>
           \/ Uncaught(step)
    /\ UNCHANGED <<entry, short_residency, long_residency, data>>
    /\ UNCHANGED callVars
    /\ UNCHANGED fmtVars

\* main returns and the script ends
MainExit ==
    /\ main_pc = "library"
    /\ Len(done_steps) = Len(MainOrder)
    /\ main_pc' = "done"
    /\ exit_code' = 0
    /\ UNCHANGED <<entry, short_residency, long_residency, data,
                   done_steps, files>>
    /\ UNCHANGED callVars
    /\ UNCHANGED fmtVars

(***************************************************************************)
(* The specification                                                       *)
(***************************************************************************)
NoData == [years_array |-> <<>>, short |-> <<>>, long |-> <<>>]

Init ==
    /\ entry \in {"calculate_net_worth", "main", "format"}
    /\ net_worth = <<>>
    /\ year = 0
    /\ short_residency = <<>>
    /\ long_residency = <<>>
    /\ data = NoData
    /\ done_steps = <<>>
    /\ files = {}
    /\ exit_code = -1
    /\ cell = <<>>
    /\ IF entry = "calculate_net_worth"
       THEN /\ years \in Years
            /\ residency_length \in Residencies
            /\ pc = "entry"
       ELSE /\ years = 0
            /\ residency_length = 0
            /\ pc = "idle"
    /\ main_pc = IF entry = "main" THEN "start" ELSE "none"
    /\ IF entry = "format" THEN val \in FormatProbes ELSE val = FZero

Next ==
    \/ Enter
    \/ LoopStep
    \/ Return
    \/ Format
    \/ MainCallShort
    \/ MainCallLong
    \/ MainGotLong
    \/ MainBuildData
    \/ MainLibraryStep
    \/ MainExit

Spec == Init /\ [][Next]_vars

(***************************************************************************)
(* The properties.  trajectory[y] of the specification is net_worth[y + 1] *)
(* here: sequences are indexed from 1.  Each formula about the recurrence  *)
(* is evaluated in float arithmetic, operation by operation, in the order  *)
(* Python gives the written expression.                                    *)
(***************************************************************************)
Returned == pc = "returned"

\* the years of the trajectory built so far
YearsOf(nw) == 1..(Len(nw) - 1)

Prev(y) == net_worth[y]
Value(y) == net_worth[y + 1]

TrainingNegative(y) == y <= residency_length /\ FIsNeg(Prev(y))
TrainingNonNegative(y) == y <= residency_length /\ ~FIsNeg(Prev(y))
PostTraining(y) == y > residency_length

\* calculate_net_worth(MaxYears, L) for every length drawn; a call with
\* fewer years returns a prefix of it (StepwiseAgrees)
Reference == [L \in Residencies |-> CalculateNetWorth(MaxYears, L)]

\* The list built step by step is the function's value.
StepwiseAgrees ==
    (entry = "calculate_net_worth" /\ pc \in {"loop", "returned"}) =>
        net_worth = SubSeq(Reference[residency_length], 1, Len(net_worth))

\* C1 as stated: in a training year after a negative balance,
\* trajectory[y] == trajectory[y-1] * (1 + interest_rate) + resident_salary
\* - living_expenses, and simulate(1, 3)[1] == -520000.
C1_Factored ==
    Returned =>
        /\ \A y \in YearsOf(net_worth) :
              TrainingNegative(y) =>
                  Value(y) = FSub(FAdd(FMul(Prev(y), FAdd(FromInt(1), INTEREST_RATE)),
                                       FromInt(RESIDENT_SALARY)),
                                  FromInt(LIVING_EXPENSES))
        /\ (years = 1 /\ residency_length = 3) => Value(1) = FromInt(-520000)

\* C1 amended: in a training year after a negative balance,
\* trajectory[y] == trajectory[y-1] + (resident_salary - living_expenses)
\* + trajectory[y-1] * interest_rate, summed in that order, and
\* simulate(1, 3)[1] == -520000.
C1_InterestOnDebt ==
    Returned =>
        /\ \A y \in YearsOf(net_worth) :
              TrainingNegative(y) =>
                  Value(y) = FAdd(FAdd(Prev(y), FromInt(RESIDENT_SALARY - LIVING_EXPENSES)),
                                  FMul(Prev(y), INTEREST_RATE))
        /\ (years = 1 /\ residency_length = 3) => Value(1) = FromInt(-520000)

C1_Witness ==
    /\ Returned
    /\ residency_length = LongLength
    /\ years = MainYears
    /\ TrainingNegative(4)
    /\ ~FIsWhole(Value(4))

\* C2 speaks of a training year that follows a balance >= 0.  With the
\* constants of the source there is none: the balance starts at
\* -INITIAL_DEBT and every training year leaves it negative, so the branch
\* of line 28 is never taken.
TrainingBalanceNegative ==
    pc \in {"loop", "returned"} =>
        \A y \in YearsOf(net_worth) : ~TrainingNonNegative(y)

\* C3: for residency_length == 3 every year y > 3 has
\* trajectory[y] == trajectory[y-1] + short_attending_salary - living_expenses,
\* with no interest term whatever the sign of trajectory[y-1]; so
\* simulate(4, 3)[4] == trajectory[3] + 300000 - 50000.
C3_ShortAttending ==
    (Returned /\ residency_length = 3) =>
        \A y \in YearsOf(net_worth) :
            PostTraining(y) =>
                Value(y) = FSub(FAdd(Prev(y), FromInt(SHORT_ATTENDING_SALARY)),
                                FromInt(LIVING_EXPENSES))

C3_Witness ==
    /\ Returned
    /\ residency_length = 3
    /\ years = 4
    /\ FIsNeg(Prev(4))
    /\ Value(4) = FromInt(-313672)

\* C4 as stated: for every residency_length other than 3 every year
\* y > residency_length has
\* trajectory[y] == trajectory[y-1] + long_attending_salary - living_expenses.
C4_Flat ==
    (Returned /\ residency_length # 3) =>
        \A y \in YearsOf(net_worth) :
            PostTraining(y) =>
                Value(y) = FSub(FAdd(Prev(y), FromInt(LONG_ATTENDING_SALARY)),
                                FromInt(LIVING_EXPENSES))

\* C4 amended: for every residency_length other than 3 (7, 0, 1, 5, a
\* negative value) every year y > residency_length has
\* trajectory[y] == trajectory[y-1] + (long_attending_salary - living_expenses),
\* the difference taken first.
C4_LongAttending ==
    (Returned /\ residency_length # 3) =>
        \A y \in YearsOf(net_worth) :
            PostTraining(y) =>
                Value(y) = FAdd(Prev(y),
                                FromInt(LONG_ATTENDING_SALARY - LIVING_EXPENSES))

C4_Witness ==
    /\ Returned
    /\ residency_length = 1
    /\ years >= 3
    /\ FIsNeg(Prev(3))
    /\ Value(3) = FromInt(180000)

\* C5: for years >= 0 the returned list has exactly years + 1 elements.
C5_Length ==
    (Returned /\ years >= 0) => Len(net_worth) = years + 1

C5_Witness ==
    /\ Returned
    /\ entry = "calculate_net_worth"
    /\ years = 0
    /\ Len(net_worth) = 1

\* C6: element 0 of the trajectory is -initial_debt in every state of the
\* loop, in the returned list and in the lists main keeps.
C6_FirstElement ==
    /\ pc \in {"loop", "returned"} => net_worth[1] = FromInt(-INITIAL_DEBT)
    /\ short_residency # <<>> => short_residency[1] = FromInt(-INITIAL_DEBT)
    /\ long_residency # <<>> => long_residency[1] = FromInt(-INITIAL_DEBT)

C6_Witness ==
    /\ pc = "loop"
    /\ Len(net_worth) > 3
    /\ net_worth[1] = FromInt(-500000)

\* The texts C7 allows for v, from the exact value of v and whole-number
\* arithmetic.  Below a million: v/1000 cut toward zero, "K".  Otherwise: a
\* tenth nearest to v/1000000 (either neighbour on a tie), "M".
ClaimedTexts(v) ==
    LET whole == MagFloor(v)
        minus(t) == IF v.neg /\ t > 0 THEN <<"-">> ELSE <<>>
        near(t) == /\ t * 100000 - 50000 <= whole
                   /\ \/ whole < t * 100000 + 50000
                      \/ whole = t * 100000 + 50000 /\ FIsWhole(v)
    IN  IF whole < 1000000
        THEN {<<"$">> \o minus(whole \div 1000) \o NatStr(whole \div 1000) \o <<"K">>}
        ELSE {<<"$">> \o minus(t) \o NatStr(t \div 10) \o <<".">>
                  \o <<DigitChar(t % 10)>> \o <<"M">> :
              t \in {u \in (whole \div 100000)..(whole \div 100000 + 1) : near(u)}}

\* C7: every value is rendered by the rule: below a million in magnitude
\* as "$" T "K" with T = v/1000 truncated toward zero, otherwise (a million
\* included) as v/1000000 to one decimal place with "M"; both columns of
\* main's table are rendered so.
C7_Format ==
    /\ (entry = "format" /\ cell # <<>>) => cell \in ClaimedTexts(val)
    /\ \A i \in 1..Len(data.short) : data.short[i] \in ClaimedTexts(short_residency[i])
    /\ \A i \in 1..Len(data.long) : data.long[i] \in ClaimedTexts(long_residency[i])
    /\ (entry = "format" /\ cell # <<>> /\ val = FromInt(1234567)) =>
           cell = <<"$", "1", ".", "2", "M">>
    /\ (entry = "format" /\ cell # <<>> /\ val = FromInt(1000000)) =>
           cell = <<"$", "1", ".", "0", "M">>
    /\ (entry = "format" /\ cell # <<>> /\ val = FromInt(-520000)) =>
           cell = <<"$", "-", "5", "2", "0", "K">>
    /\ main_pc \in {"library", "raised", "done"} =>
           Len(data.short) = MainYears + 1 /\ Len(data.long) = MainYears + 1

C7_Witness ==
    /\ entry = "format"
    /\ val = FromInt(-520999)
    /\ cell = <<"$", "-", "5", "2", "0", "K">>

IsPrefix(a, b) == Len(a) <= Len(b) /\ SubSeq(b, 1, Len(a)) = a

Done(step) == \E i \in 1..Len(done_steps) : done_steps[i] = step

\* the steps C8 names, in the order it gives
ClaimedOrder == <<"short_residency", "long_residency", "data", "print_table",
                  "to_csv", "savefig", "show">>

IsClaimedStep(step) == \E i \in 1..Len(ClaimedOrder) : ClaimedOrder[i] = step

C8_State ==
    entry = "main" =>
        /\ IsPrefix(SelectSeq(done_steps, IsClaimedStep), ClaimedOrder)
        /\ exit_code \in {-1, 0, 1}
        /\ exit_code = 0 <=> main_pc = "done"
        /\ exit_code = 1 <=> main_pc = "raised"
        /\ exit_code = 0 =>
              /\ SelectSeq(done_steps, IsClaimedStep) = ClaimedOrder
              /\ files = {CsvFile, PngFile}
        /\ CsvFile \in files <=> Done("to_csv")
        /\ PngFile \in files <=> Done("savefig")

\* C8: main's steps run in the one order given, each only after every
\* earlier one completed; a failure ends the run with a nonzero status and
\* nothing runs after it; a run that ends with status 0 has written both
\* files.
C8_Sequence == []C8_State /\ [][exit_code = -1]_vars

C8_Witness ==
    /\ main_pc = "raised"
    /\ exit_code = 1
    /\ files = {CsvFile}
    /\ Done("to_csv")
    /\ ~Done("savefig")

ArgsInvalid == years <= 0 \/ residency_length \notin {3, 7}

\* C9 as stated: with years non-positive or residency_length outside
\* {3, 7} the call reports an error before it computes any value, and
\* returns no trajectory.
C9_Rejects ==
    (entry = "calculate_net_worth" /\ ArgsInvalid) => pc \in {"entry", "error"}

\* C9 amended: calculate_net_worth checks nothing and never reports an
\* error; for every years and residency_length, those with years <= 0 or
\* residency_length outside {3, 7} included, it returns a trajectory of
\* max(years, 0) + 1 values that starts with -initial_debt.
C9_NoValidation ==
    /\ pc # "error"
    /\ (Returned /\ ArgsInvalid) =>
          /\ Len(net_worth) = Max(years, 0) + 1
          /\ net_worth[1] = FromInt(-INITIAL_DEBT)

C9_Witness ==
    /\ Returned
    /\ years = -1
    /\ residency_length = 0
    /\ Len(net_worth) = 1

\* C10: the trajectories of two residency lengths over the same years agree
\* at every index 0..min(L1, L2, years); main's two agree at 0..3 and differ
\* at 4.
C10_CommonPrefix ==
    /\ (entry = "calculate_net_worth" /\ Returned) =>
          \A L2 \in Residencies :
              \A i \in 0..Min(Min(residency_length, L2), years) :
                  net_worth[i + 1] = Reference[L2][i + 1]
    /\ (short_residency # <<>> /\ long_residency # <<>>) =>
          /\ \A i \in 0..3 : short_residency[i + 1] = long_residency[i + 1]
          /\ short_residency[5] # long_residency[5]

C10_Witness ==
    /\ main_pc = "data"
    /\ Len(short_residency) = MainYears + 1
    /\ Len(long_residency) = MainYears + 1
    /\ short_residency[4] = FromInt(-563672)

====
